---- MODULE Spec2Model ----
(***************************************************************************)
(* Model of the FUE licence optimizer loader: the tenant table registry    *)
(* (app/models/dynamic_models.py) and the six truncate-and-reload          *)
(* pipelines (app/service/data_loader_service.py).                         *)
(*                                                                         *)
(* Text is modelled as a sequence of one-character strings, so that name   *)
(* normalisation and CSV record splitting are computed character by        *)
(* character as the code and its libraries compute them.                   *)
(***************************************************************************)
EXTENDS Integers, Sequences, FiniteSets, TLC

(***************************************************************************)
(* Bounds of the model                                                     *)
(***************************************************************************)
MaxLines == 3
MaxItems == 2
MaxNameLen == 2
MaxCalls == 2

(***************************************************************************)
(* Generic helpers                                                         *)
(***************************************************************************)
SeqsUpTo(S, n) == UNION {[1..k -> S] : k \in 0..n}

RECURSIVE Concat(_)
Concat(ss) == IF ss = <<>> THEN <<>> ELSE Head(ss) \o Concat(Tail(ss))

(***************************************************************************)
(* Tenant table registry: names                                            *)
(***************************************************************************)
Kinds == {"lice", "auth", "fiori", "master_derived", "user_role", "user"}
CsvKinds == Kinds \ {"lice"}

\* "j-caron" stands for the one character U+01F0 (j with caron), a letter
\* whose upper case is the two characters J and U+030C, and "caron" for
\* U+030C, a combining mark, which \w does not match
LowerChars == {"a", "j-caron"}
UpperChars == {"A", "B", "C", "D", "E", "F", "H", "I", "J", "L", "M", "N",
               "O", "R", "S", "T", "U", "V"}
WordChars == LowerChars \cup UpperChars \cup {"_"}
NameChars == {"a", "A", "_", " ", "\t", "-", "j-caron"}

\* str.upper() on one character: the characters of its upper case
Upper(c) ==
  IF c = "a" THEN <<"A">>
  ELSE IF c = "j-caron" THEN <<"J", "caron">>
  ELSE <<c>>

\* a normalisation that leaves spaces to the strip
ReplaceNothing(x) == x

\* str.replace(' ', '_')
ReplaceSpace(x) == [i \in 1..Len(x) |-> IF x[i] = " " THEN "_" ELSE x[i]]

\* re.sub(r'\W+', '', x): every maximal run of non-word characters removed
StripNonWord(x) == SelectSeq(x, LAMBDA c : c \in WordChars)

\* str.upper()
UpperStr(x) == Concat([i \in 1..Len(x) |-> Upper(x[i])])

clean_client_name(client_name) == UpperStr(StripNonWord(ReplaceSpace(client_name)))

clean_system_name(system_name) == UpperStr(StripNonWord(ReplaceSpace(system_name)))

Prefix == <<"Z", "_", "F", "U", "E", "_">>

\* suffixes of which one ends in another
SuffixClash(kind) ==
  CASE kind = "lice" ->
         <<"R","O","L","E","_","O","B","J","_","L","I","C","E","N","S","E","_","I","N","F","O">>
    [] kind = "auth" ->
         <<"R","O","L","E","_","A","U","T","H","_","O","B","J","_","D","A","T","A">>
    [] kind = "fiori" ->
         <<"R","O","L","E","_","F","I","O","R","I","_","D","A","T","A">>
    [] kind = "master_derived" ->
         <<"R","O","L","E","_","M","A","S","T","E","R","_","D","E","R","V","I","_","D","A","T","A">>
    [] kind = "user" ->
         <<"U","S","E","R","_","D","A","T","A">>
    [] kind = "user_role" ->
         <<"R","O","L","E","_","U","S","E","R","_","D","A","T","A">>

Suffix(kind) ==
  CASE kind = "lice" ->
         <<"R","O","L","E","_","O","B","J","_","L","I","C","E","N","S","E","_","I","N","F","O">>
    [] kind = "auth" ->
         <<"R","O","L","E","_","A","U","T","H","_","O","B","J","_","D","A","T","A">>
    [] kind = "fiori" ->
         <<"R","O","L","E","_","F","I","O","R","I","_","D","A","T","A">>
    [] kind = "master_derived" ->
         <<"R","O","L","E","_","M","A","S","T","E","R","_","D","E","R","V","I","_","D","A","T","A">>
    [] kind = "user" ->
         <<"U","S","E","R","_","D","A","T","A">>
    [] kind = "user_role" ->
         <<"U","S","E","R","_","R","O","L","E","_","D","A","T","A">>

\* get_<kind>_tablename(client_name, system_name)
TableName(kind, client_name, system_name) ==
  Prefix \o clean_client_name(client_name) \o <<"_">>
         \o clean_system_name(system_name) \o <<"_">> \o Suffix(kind)

(***************************************************************************)
(* Record schemas: the field_map of each CSV loader (field -> zero-based   *)
(* column index)                                                           *)
(***************************************************************************)
\* FieldsAt(<<f0, f1, ...>>) is the field_map {f0: 0, f1: 1, ...}
FieldsAt(names) == [f \in {names[i] : i \in 1..Len(names)} |->
                     (CHOOSE i \in 1..Len(names) : names[i] = f) - 1]

FieldMap(kind) ==
  CASE kind = "auth" ->
         FieldsAt(<<"AGR_NAME", "OBJECT", "AUTH_NAME", "FIELD_NAME",
                    "AUTH_VALUE_LOW", "AUTH_VALUE_HIGH">>)
    [] kind = "fiori" ->
         FieldsAt(<<"ROLE", "ROLE_DESCRIPTION",
                    "TILE_TARGET_MAPPING_MATCHING_TEXT", "SEMANTIC_OBJECT",
                    "ACTION", "TITLE_SUBTITLE_INFORMATION",
                    "APPLICATION_TYPE", "APPLICATION_RESOURCES",
                    "SAP_FIORI_ID", "APPLICATION_COMPONENT_ID",
                    "ODATA_SERVICE_NAME", "CATALOG_ID", "CATALOG_TITLE">>)
    [] kind = "master_derived" ->
         FieldsAt(<<"DERIVED_ROLE", "MASTER_ROLE">>)
    [] kind = "user_role" ->
         FieldsAt(<<"ROLE", "USER_NAME">>)
    [] kind = "user" ->
         FieldsAt(<<"USER", "FULL_NAME", "ID", "CURRENT_CLASSIFICATION",
                    "TARGET_CLASSIFICATION", "RATIO", "REF_USER",
                    "USER_GROUP", "LAST_LOGON", "COUNT">>)

\* number of columns a row needs for row[csv_index] not to raise IndexError
Required(kind) ==
  LET fm == FieldMap(kind)
  IN  1 + (CHOOSE m \in {fm[f] : f \in DOMAIN fm} :
             \A f \in DOMAIN fm : fm[f] <= m)

(***************************************************************************)
(* csv.reader(csv_text.splitlines()) with the default (excel) dialect.     *)
(* The lines come from str.splitlines(), so no line holds a line break;    *)
(* the reader sees each line's characters followed by an end-of-line       *)
(* event.  A quoted field left open at the end of a line continues on the  *)
(* next line, so one record can span several lines.                        *)
(***************************************************************************)
Delimiter == ","
QuoteChar == "\""
EOL == "EOL"

parse_reset == [state |-> "START_RECORD", fields |-> <<>>, field |-> <<>>]

parse_save_field(ps) ==
  [ps EXCEPT !.fields = Append(ps.fields, ps.field), !.field = <<>>]

parse_add_char(ps, c) == [ps EXCEPT !.field = Append(ps.field, c)]

StartField(ps, c) ==
  IF c = EOL
    THEN [parse_save_field(ps) EXCEPT !.state = "START_RECORD"]
    ELSE IF c = QuoteChar
      THEN [ps EXCEPT !.state = "IN_QUOTED_FIELD"]
      ELSE IF c = Delimiter
        THEN [parse_save_field(ps) EXCEPT !.state = "START_FIELD"]
        ELSE [parse_add_char(ps, c) EXCEPT !.state = "IN_FIELD"]

parse_process_char(ps, c) ==
  CASE ps.state = "START_RECORD" ->
         IF c = EOL THEN ps ELSE StartField(ps, c)
    [] ps.state = "START_FIELD" -> StartField(ps, c)
    [] ps.state = "IN_FIELD" ->
         IF c = EOL
           THEN [parse_save_field(ps) EXCEPT !.state = "START_RECORD"]
           ELSE IF c = Delimiter
             THEN [parse_save_field(ps) EXCEPT !.state = "START_FIELD"]
             ELSE parse_add_char(ps, c)
    [] ps.state = "IN_QUOTED_FIELD" ->
         IF c = EOL
           THEN ps
           ELSE IF c = QuoteChar
             THEN [ps EXCEPT !.state = "QUOTE_IN_QUOTED_FIELD"]
             ELSE parse_add_char(ps, c)
    [] ps.state = "QUOTE_IN_QUOTED_FIELD" ->
         IF c = QuoteChar
           THEN [parse_add_char(ps, c) EXCEPT !.state = "IN_QUOTED_FIELD"]
           ELSE IF c = Delimiter
             THEN [parse_save_field(ps) EXCEPT !.state = "START_FIELD"]
             ELSE IF c = EOL
               THEN [parse_save_field(ps) EXCEPT !.state = "START_RECORD"]
               ELSE [parse_add_char(ps, c) EXCEPT !.state = "IN_FIELD"]

RECURSIVE ProcessChars(_, _)
ProcessChars(ps, line) ==
  IF line = <<>> THEN parse_process_char(ps, EOL)
  ELSE ProcessChars(parse_process_char(ps, Head(line)), Tail(line))

\* the rows the reader yields, in order, when iterated to exhaustion
RECURSIVE ReaderRows(_, _)
ReaderRows(lines, ps) ==
  IF lines = <<>>
    THEN IF Len(ps.field) # 0 \/ ps.state = "IN_QUOTED_FIELD"
           THEN <<parse_save_field(ps).fields>>
           ELSE <<>>
    ELSE LET ps2 == ProcessChars(ps, Head(lines))
         IN  IF ps2.state = "START_RECORD"
               THEN <<ps2.fields>> \o ReaderRows(Tail(lines), parse_reset)
               ELSE ReaderRows(Tail(lines), ps2)

csv_reader(lines) == ReaderRows(lines, parse_reset)

(***************************************************************************)
(* The parse block of the CSV loaders: next(csv_reader), then one object   *)
(* per remaining row, the first short row aborting with its number i+2.    *)
(***************************************************************************)
\* next(csv_reader) raises StopIteration when the reader yields no row
HeaderMissing(rows) == rows = <<>>

\* a loader without next(csv_reader): the header is loaded as data
DataRowsWithHeader(rows) == rows

\* the rows left after next(csv_reader)
DataRows(rows) == Tail(rows)

\* row[csv_index] raises IndexError for some csv_index of the field_map
ShortRow(kind, row) == Len(row) < Required(kind)

\* obj_data = {model_field: row[csv_index] for ... in field_map.items()}
RowObject(kind, row) ==
  [f \in DOMAIN FieldMap(kind) |-> row[FieldMap(kind)[f] + 1]]

\* a row number that does not count the header line
RowNumberWithoutHeader(i) == i + 1

\* the number in "Error processing row {i+2}", i the enumerate() index
RowNumber(i) == i + 2

ParseCsv(kind, lines) ==
  LET rows == csv_reader(lines) IN
  IF HeaderMissing(rows)
    THEN [ok |-> FALSE, err |-> "StopIteration", row |-> 0, objects |-> <<>>]
    ELSE
      LET data == DataRows(rows)
          bad  == {i \in 1..Len(data) : ShortRow(kind, data[i])}
      IN  IF bad # {}
            THEN [ok |-> FALSE, err |-> "NotEnoughColumns",
                  row |-> RowNumber((CHOOSE i \in bad : \A j \in bad : i <= j) - 1),
                  objects |-> <<>>]
            ELSE [ok |-> TRUE, err |-> "", row |-> 0,
                  objects |-> [i \in 1..Len(data) |-> RowObject(kind, data[i])]]


(***************************************************************************)
(* The parse block of the XML loader.  A document is either malformed or   *)
(* the list of item elements found under values/DOWNLOAD/item; an item is  *)
(* a function from the tags it contains to their text.                     *)
(***************************************************************************)
Empty == <<>>
Zero == <<"0">>

\* item.findtext(tag, default)
findtext(item, tag, default) ==
  IF tag \in DOMAIN item THEN item[tag] ELSE default

AggregateDefaults ==
  [AGR_TEXT |-> Empty, AGR_CLASSIF |-> Empty, AGR_RATIO |-> Empty,
   AGR_OBJECTS |-> Zero, AGR_USERS |-> Zero]

AggregateFields == DOMAIN AggregateDefaults

DetailFields == {"TTEXT", "FIELD", "LOW", "HIGH", "CLASSIF_S4"}

\* not auth_obj and agr_name and agr_classif_check is not None
IsRoleHeader(item) ==
  /\ findtext(item, "OBJECT", Empty) = Empty
  /\ findtext(item, "AGR_NAME", Empty) # Empty
  /\ "AGR_CLASSIF" \in DOMAIN item

\* the entry stored in roles_info for a header item
RoleInfo(item) ==
  [f \in AggregateFields |-> findtext(item, f, AggregateDefaults[f])]

\* a detail object that ignores roles_info and keeps its own aggregates
LiceObjectOwn(item, roles_info) ==
  [f \in {"AGR_NAME", "OBJECT"} \cup DetailFields \cup AggregateFields |->
     IF f \in AggregateFields THEN findtext(item, f, AggregateDefaults[f])
     ELSE findtext(item, f, Empty)]

\* the object built for a detail item, given roles_info
LiceObject(item, roles_info) ==
  LET agr_name == findtext(item, "AGR_NAME", Empty)
      own == [f \in AggregateFields |-> findtext(item, f, AggregateDefaults[f])]
      agg == IF agr_name \in DOMAIN roles_info THEN roles_info[agr_name] ELSE own
  IN  [f \in {"AGR_NAME", "OBJECT"} \cup DetailFields \cup AggregateFields |->
         IF f = "AGR_NAME" THEN agr_name
         ELSE IF f \in AggregateFields THEN agg[f]
         ELSE findtext(item, f, Empty)]

\* the for-loop over items: <<roles_info, objects_to_load>> after the loop
RECURSIVE ItemLoop(_, _, _)
ItemLoop(items, roles_info, objects) ==
  IF items = <<>> THEN <<roles_info, objects>>
  ELSE LET item == Head(items) IN
       IF findtext(item, "OBJECT", Empty) = Empty
         THEN IF IsRoleHeader(item)
                THEN ItemLoop(Tail(items),
                              [n \in DOMAIN roles_info \cup {item["AGR_NAME"]} |->
                                 IF n = item["AGR_NAME"] THEN RoleInfo(item)
                                 ELSE roles_info[n]],
                              objects)
                ELSE ItemLoop(Tail(items), roles_info, objects)
         ELSE ItemLoop(Tail(items), roles_info,
                       Append(objects, LiceObject(item, roles_info)))

\* a parse that also rejects a header whose role has no detail item
ParseXmlStrict(doc) ==
  LET looped == ItemLoop(doc.items, <<>>, <<>>)
      loaded == {looped[2][i]["AGR_NAME"] : i \in 1..Len(looped[2])}
  IN  IF ~doc.wellformed
        THEN [ok |-> FALSE, err |-> "ParseError", row |-> 0, objects |-> <<>>]
      ELSE IF doc.items = <<>>
        THEN [ok |-> FALSE, err |-> "NoItems", row |-> 0, objects |-> <<>>]
      ELSE IF looped[2] = <<>> \/ \E n \in DOMAIN looped[1] : n \notin loaded
        THEN [ok |-> FALSE, err |-> "NoObjects", row |-> 0, objects |-> <<>>]
        ELSE [ok |-> TRUE, err |-> "", row |-> 0, objects |-> looped[2]]

ParseXml(doc) ==
  IF ~doc.wellformed
    THEN [ok |-> FALSE, err |-> "ParseError", row |-> 0, objects |-> <<>>]
  ELSE IF doc.items = <<>>
    THEN [ok |-> FALSE, err |-> "NoItems", row |-> 0, objects |-> <<>>]
  ELSE LET objects == ItemLoop(doc.items, <<>>, <<>>)[2] IN
       IF objects = <<>>
         THEN [ok |-> FALSE, err |-> "NoObjects", row |-> 0, objects |-> <<>>]
         ELSE [ok |-> TRUE, err |-> "", row |-> 0, objects |-> objects]

Parse(kind, content) ==
  IF kind = "lice" THEN ParseXml(content) ELSE ParseCsv(kind, content)

(***************************************************************************)
(* Inputs                                                                  *)
(***************************************************************************)
CsvChars == {"a", Delimiter, QuoteChar}

\* the empty line and the lines of one character
ShortLines == {<<>>} \cup {<<c>> : c \in CsvChars}

Letters == <<"a", "b", "c", "d", "e", "f", "g", "h", "i", "j", "k", "l", "m", "n">>

\* a line of n one-letter columns, all different: a,b,c,...
WideLine(n) ==
  [i \in 1..(IF n = 0 THEN 0 ELSE 2 * n - 1) |->
     IF i % 2 = 1 THEN Letters[(i + 1) \div 2] ELSE Delimiter]

WideLines(kind) ==
  {WideLine(Required(kind) - 1), WideLine(Required(kind)),
   WideLine(Required(kind) + 1)}

CsvInputs(kind) == SeqsUpTo(ShortLines \cup WideLines(kind), MaxLines)

R1 == <<"R", "1">>
R2 == <<"R", "2">>
O1 == <<"O", "1">>

\* the tags of an item other than AGR_NAME and OBJECT, in variant v
Payload(v) ==
  [f \in (AggregateFields \ {"AGR_CLASSIF"}) \cup DetailFields |-> <<f, v>>]

ItemOf(name, object, classif, payload) ==
  LET tags == (IF name = Empty THEN {} ELSE {"AGR_NAME"})
              \cup (IF object = Empty THEN {} ELSE {"OBJECT"})
              \cup (IF classif = "" THEN {} ELSE {"AGR_CLASSIF"})
              \cup (IF payload = "" THEN {} ELSE DOMAIN Payload(payload))
  IN  [f \in tags |->
         IF f = "AGR_NAME" THEN name
         ELSE IF f = "OBJECT" THEN object
         ELSE IF f = "AGR_CLASSIF" THEN <<"C", classif>>
         ELSE Payload(payload)[f]]

XmlItems ==
  {ItemOf(name, object, cp[1], cp[2]) :
     name \in {Empty, R1, R2}, object \in {Empty, O1},
     cp \in {<<"", "">>, <<"", "1">>, <<"1", "">>,
             <<"1", "1">>, <<"2", "2">>}}

XmlInputs ==
  {[wellformed |-> FALSE, items |-> <<>>]}
    \cup {[wellformed |-> TRUE, items |-> its] : its \in SeqsUpTo(XmlItems, MaxItems)}

Inputs(kind) == IF kind = "lice" THEN XmlInputs ELSE CsvInputs(kind)


(***************************************************************************)
(* State                                                                   *)
(***************************************************************************)
Procs == {1, 2}

\* three tenants; the last two differ after normalisation
SoloTenants == {<<<<"a">>, <<"a">>>>}

Tenants == {<<<<"a">>, <<"a">>>>,
            <<<<"a", " ">>, <<"a">>>>,
            <<<<"a">>, <<"_", "a">>>>}

None == <<>>

VARIABLES
  cache,    \* _dynamic_models_cache: table name -> model class
  tables,   \* the database: existing table name -> committed rows, id sequence
  sess,     \* per caller, the pending work of its session (db)
  pc,       \* per caller, the position in its load call
  loc,      \* per caller, the arguments and locals of its load call
  ret,      \* per caller, what its load call returned or raised
  pre,      \* per caller, the cache and the database when its call began
  log,      \* per caller, the registry and session operations its call issued
  prev      \* per caller, the call it made before this one and what it left

vars == <<cache, tables, sess, pc, loc, ret, pre, log, prev>>

\* a session that commits every statement as it is issued
autocommit_on == TRUE

\* sessionmaker(autocommit=False, ...): statements stay pending until commit
autocommit == FALSE

CleanSession == [deleted |-> {}, added |-> <<>>]

NoLocals == [kind |-> "", client |-> None, system |-> None, file |-> FALSE,
             table_name |-> None, model |-> None, content |-> None,
             objects |-> <<>>]

NoResult == [status |-> "none", table_name |-> None, records_loaded |-> 0,
             err |-> "", row |-> 0]

\* no call made yet
NoPrev == [calls |-> 0, loc |-> NoLocals, ret |-> NoResult, log |-> <<>>,
           tables |-> <<>>]

Returned(table_name, n) ==
  [status |-> "returned", table_name |-> table_name, records_loaded |-> n,
   err |-> "", row |-> 0]

Raised(err, row) ==
  [status |-> "raised", table_name |-> None, records_loaded |-> 0,
   err |-> err, row |-> row]

\* the committed records of a table, in id order
RECURSIVE RowsInOrder(_)
RowsInOrder(rows) ==
  IF rows = {} THEN <<>>
  ELSE LET r == CHOOSE x \in rows : \A y \in rows : x.id <= y.id
       IN  <<r.rec>> \o RowsInOrder(rows \ {r})

Records(db, t) == RowsInOrder(db[t].rows)

(***************************************************************************)
(* The database as the loaders use it                                      *)
(***************************************************************************)
\* inspector.has_table(table_name)
has_table(db, t) == t \in DOMAIN db

\* model_class.__table__.create(bind=db_engine)
create_table(db, t) ==
  [x \in DOMAIN db \cup {t} |-> IF x = t THEN [rows |-> {}, seq |-> 1] ELSE db[x]]

\* the INSERTs of a flush: every added object gets the next id of its table
RECURSIVE Insert(_, _)
Insert(db, added) ==
  IF added = <<>> THEN db
  ELSE LET a == Head(added)
           t == a.table
       IN  Insert([db EXCEPT ![t] = [rows |-> @.rows \cup {[id |-> @.seq, rec |-> a.rec]},
                                      seq |-> @.seq + 1]],
                  Tail(added))

\* the DELETE of the rows a session saw when it issued its delete
Remove(db, deleted) ==
  [t \in DOMAIN db |-> [db[t] EXCEPT !.rows = {r \in @ : <<t, r.id>> \notin deleted}]]

\* a delete that deletes nothing
DeleteNothing(db, s, t) == [db |-> db, s |-> s]

\* db.query(Model).delete(): every row of the table, pending in the session
Delete(db, s, t) ==
  LET seen == {<<t, r.id>> : r \in db[t].rows} IN
  IF autocommit
    THEN [db |-> Remove(db, seen), s |-> s]
    ELSE [db |-> db, s |-> [s EXCEPT !.deleted = @ \cup seen]]

\* db.add_all(objects_to_load)
AddAll(s, t, objects) ==
  [s EXCEPT !.added = @ \o [i \in 1..Len(objects) |-> [table |-> t, rec |-> objects[i]]]]

\* db.commit(): the pending delete and inserts become the committed rows
Commit(db, s) == Insert(Remove(db, s.deleted), s.added)

\* a commit that fails after its INSERTs ran: only the id sequences moved
FailedCommit(db, s) ==
  LET after == Insert(db, s.added)
  IN  [t \in DOMAIN db |-> [db[t] EXCEPT !.seq = after[t].seq]]

\* a rollback that leaves the pending work in the session
RollbackKeepsPending(s) == s

\* db.rollback()
Rollback(s) == CleanSession


(***************************************************************************)
(* Initial states: a fresh process (empty cache, clean sessions) on a      *)
(* database that holds no table yet, or the tables of earlier runs, empty  *)
(* or with one row of an earlier load.                                     *)
(***************************************************************************)
AllTableNames == {TableName(k, t[1], t[2]) : k \in Kinds, t \in Tenants}

KindOf(n) == CHOOSE k \in Kinds : \E t \in Tenants : TableName(k, t[1], t[2]) = n

OldInput(kind) ==
  IF kind = "lice"
    THEN [wellformed |-> TRUE, items |-> <<ItemOf(R1, O1, "1", "1")>>]
    ELSE <<WideLine(Required(kind)), WideLine(Required(kind))>>

OldRows(kind) == {[id |-> 1, rec |-> Parse(kind, OldInput(kind)).objects[1]]}

EmptyDB == <<>>

PriorDB(withRows) ==
  [n \in AllTableNames |->
     IF withRows THEN [rows |-> OldRows(KindOf(n)), seq |-> 2]
                 ELSE [rows |-> {}, seq |-> 1]]

InitialDBs == {EmptyDB, PriorDB(FALSE), PriorDB(TRUE)}

Init ==
  /\ cache = <<>>
  /\ tables \in InitialDBs
  /\ sess = [p \in Procs |-> CleanSession]
  /\ pc = [p \in Procs |-> "idle"]
  /\ loc = [p \in Procs |-> NoLocals]
  /\ ret = [p \in Procs |-> NoResult]
  /\ pre = [p \in Procs |-> [cache |-> cache, tables |-> tables, sess |-> sess[p]]]
  /\ log = [p \in Procs |-> <<>>]
  /\ prev = [p \in Procs |-> NoPrev]

(***************************************************************************)
(* One load call, step by step.  The six loaders share these steps; they   *)
(* differ in the create_* function, the parse block and the field_map.     *)
(***************************************************************************)
\* a loader without the test for an absent file
NeverSkips(file) == FALSE

\* "if not csv_file": an absent file is skipped
Skips(file) == ~file

\* the call and its first test: an absent file returns at once
CallWith(p, kinds, tenants) ==
  /\ pc[p] = "idle"
  /\ \E kind \in kinds, t \in tenants, file \in BOOLEAN :
       /\ loc' = [loc EXCEPT ![p] = [NoLocals EXCEPT !.kind = kind, !.client = t[1],
                                                      !.system = t[2], !.file = file]]
       /\ pre' = [pre EXCEPT ![p] = [cache |-> cache, tables |-> tables,
                                     sess |-> sess[p]]]
       /\ IF Skips(file)
            THEN /\ ret' = [ret EXCEPT ![p] = Returned(None, 0)]
                 /\ pc' = [pc EXCEPT ![p] = "done"]
            ELSE /\ ret' = ret
                 /\ pc' = [pc EXCEPT ![p] = "lookup"]
  /\ UNCHANGED <<cache, tables, sess, log, prev>>

Call(p) == CallWith(p, Kinds, SoloTenants)

\* the handle a loader gives to ensure_table_exists: the XML loader the
\* engine of app.models.database, the CSV loaders the bind of their session
EngineOf(kind) == IF kind = "lice" THEN "engine" ELSE "db.bind"

\* create_*_model, first half: the table name and the cache lookup
Lookup(p) ==
  /\ pc[p] = "lookup"
  /\ LET n == TableName(loc[p].kind, loc[p].client, loc[p].system) IN
       IF n \in DOMAIN cache
         THEN /\ loc' = [loc EXCEPT ![p].table_name = n, ![p].model = cache[n]]
              /\ pc' = [pc EXCEPT ![p] = "has_table"]
         ELSE /\ loc' = [loc EXCEPT ![p].table_name = n]
              /\ pc' = [pc EXCEPT ![p] = "construct"]
  /\ log' = [log EXCEPT ![p] = Append(@, "create_model")]
  /\ UNCHANGED <<cache, tables, sess, ret, pre, prev>>

\* the class type(...) builds: its table, its base schema, its identity
NewModel(p, kind, n) == [tablename |-> n, base |-> kind, cls |-> p]

\* _dynamic_models_cache[table_name] = Model
Store(c, n, model) == [x \in DOMAIN c \cup {n} |-> IF x = n THEN model ELSE c[x]]

\* create_*_model, second half: build the class and store it
Construct(p) ==
  /\ pc[p] = "construct"
  /\ LET model == NewModel(p, loc[p].kind, loc[p].table_name) IN
       /\ cache' = Store(cache, loc[p].table_name, model)
       /\ loc' = [loc EXCEPT ![p].model = model]
  /\ pc' = [pc EXCEPT ![p] = "has_table"]
  /\ UNCHANGED <<tables, sess, ret, pre, log, prev>>

\* a loader that goes from an existing table straight to its input
HasTableThenRead(p) ==
  /\ pc[p] = "has_table"
  /\ \E fails \in BOOLEAN :
       IF fails
         THEN /\ ret' = [ret EXCEPT ![p] = Raised("HasTable", 0)]
              /\ pc' = [pc EXCEPT ![p] = "done"]
         ELSE /\ ret' = ret
              /\ pc' = [pc EXCEPT ![p] =
                          IF has_table(tables, loc[p].model.tablename) THEN "read"
                          ELSE "create_table"]
  /\ log' = [log EXCEPT ![p] = Append(@, "has_table")]
  /\ UNCHANGED <<cache, tables, sess, loc, pre, prev>>

\* ensure_table_exists, the check; inspector.has_table may itself raise
HasTable(p) ==
  /\ pc[p] = "has_table"
  /\ \E fails \in BOOLEAN :
       IF fails
         THEN /\ ret' = [ret EXCEPT ![p] = Raised("HasTable", 0)]
              /\ pc' = [pc EXCEPT ![p] = "done"]
         ELSE /\ ret' = ret
              /\ pc' = [pc EXCEPT ![p] =
                          IF has_table(tables, loc[p].model.tablename) THEN "delete"
                          ELSE "create_table"]
  /\ log' = [log EXCEPT ![p] = Append(@, "has_table")]
  /\ UNCHANGED <<cache, tables, sess, loc, pre, prev>>

\* a create whose failure leaves the table behind
CreateTableLeavesTable(p) ==
  /\ pc[p] = "create_table"
  /\ \E fails \in BOOLEAN :
       /\ tables' = create_table(tables, loc[p].model.tablename)
       /\ IF fails
            THEN /\ ret' = [ret EXCEPT ![p] = Raised("CreateTable", 0)]
                 /\ pc' = [pc EXCEPT ![p] = "done"]
            ELSE /\ pc' = [pc EXCEPT ![p] = "delete"]
                 /\ ret' = ret
  /\ log' = [log EXCEPT ![p] = Append(@, "create_table")]
  /\ UNCHANGED <<cache, sess, loc, pre, prev>>

\* ensure_table_exists, the create: CREATE TABLE fails on an existing table
\* (and may fail for any other reason); the exception is re-raised
CreateTable(p) ==
  /\ pc[p] = "create_table"
  /\ \E fails \in BOOLEAN :
       IF fails \/ has_table(tables, loc[p].model.tablename)
         THEN /\ ret' = [ret EXCEPT ![p] =
                           Raised(IF has_table(tables, loc[p].model.tablename)
                                    THEN "TableExists" ELSE "CreateTable", 0)]
              /\ pc' = [pc EXCEPT ![p] = "done"]
              /\ tables' = tables
         ELSE /\ tables' = create_table(tables, loc[p].model.tablename)
              /\ pc' = [pc EXCEPT ![p] = "delete"]
              /\ ret' = ret
  /\ log' = [log EXCEPT ![p] = Append(@, "create_table")]
  /\ UNCHANGED <<cache, sess, loc, pre, prev>>

\* the first try block: delete the existing rows
DeleteRows(p) ==
  /\ pc[p] = "delete"
  /\ \E fails \in BOOLEAN :
       IF fails
         THEN /\ sess' = [sess EXCEPT ![p] = Rollback(@)]
              /\ ret' = [ret EXCEPT ![p] = Raised("Truncate", 0)]
              /\ pc' = [pc EXCEPT ![p] = "done"]
              /\ log' = [log EXCEPT ![p] = @ \o <<"delete", "rollback">>]
              /\ tables' = tables
         ELSE LET d == Delete(tables, sess[p], loc[p].model.tablename) IN
              /\ tables' = d.db
              /\ sess' = [sess EXCEPT ![p] = d.s]
              /\ pc' = [pc EXCEPT ![p] = "read"]
              /\ log' = [log EXCEPT ![p] = Append(@, "delete")]
              /\ ret' = ret
  /\ UNCHANGED <<cache, loc, pre, prev>>

\* the second try block up to the end of the row loop: read and parse
ReadParseFrom(p, inputs) ==
  /\ pc[p] = "read"
  /\ \/ \E content \in inputs :
          LET parsed == Parse(loc[p].kind, content) IN
          IF parsed.ok
            THEN /\ loc' = [loc EXCEPT ![p].content = content,
                                       ![p].objects = parsed.objects]
                 /\ pc' = [pc EXCEPT ![p] = "insert"]
                 /\ log' = [log EXCEPT ![p] = Append(@, "read")]
                 /\ UNCHANGED <<sess, ret>>
            ELSE /\ loc' = [loc EXCEPT ![p].content = content]
                 /\ sess' = [sess EXCEPT ![p] = Rollback(@)]
                 /\ ret' = [ret EXCEPT ![p] = Raised(parsed.err, parsed.row)]
                 /\ pc' = [pc EXCEPT ![p] = "done"]
                 /\ log' = [log EXCEPT ![p] = @ \o <<"read", "rollback">>]
     \/ \* csv_file.read() itself raises
        /\ sess' = [sess EXCEPT ![p] = Rollback(@)]
        /\ ret' = [ret EXCEPT ![p] = Raised("Read", 0)]
        /\ pc' = [pc EXCEPT ![p] = "done"]
        /\ log' = [log EXCEPT ![p] = @ \o <<"read", "rollback">>]
        /\ loc' = loc
  /\ UNCHANGED <<cache, tables, pre, prev>>

ReadParse(p) == ReadParseFrom(p, Inputs(loc[p].kind))

\* the rest of the second try block: add_all, commit, return
AddCommit(p) ==
  /\ pc[p] = "insert"
  /\ LET s == AddAll(sess[p], loc[p].model.tablename, loc[p].objects) IN
     \E outcome \in {"ok", "insert_fails", "commit_fails"} :
       IF outcome = "ok"
         THEN /\ tables' = Commit(tables, s)
              /\ sess' = [sess EXCEPT ![p] = CleanSession]
              /\ ret' = [ret EXCEPT ![p] =
                           Returned(loc[p].table_name, Len(loc[p].objects))]
              /\ log' = [log EXCEPT ![p] = @ \o <<"add_all", "commit">>]
         ELSE /\ tables' = IF outcome = "commit_fails" THEN FailedCommit(tables, s)
                           ELSE tables
              /\ sess' = [sess EXCEPT ![p] = Rollback(s)]
              /\ ret' = [ret EXCEPT ![p] =
                           Raised(IF outcome = "commit_fails" THEN "Commit" ELSE "Insert", 0)]
              /\ log' = [log EXCEPT ![p] = @ \o <<"add_all", "commit", "rollback">>]
  /\ pc' = [pc EXCEPT ![p] = "done"]
  /\ UNCHANGED <<cache, loc, pre, prev>>

(***************************************************************************)
(* Spec: one caller, one load call, every input of the bounded families    *)
(***************************************************************************)
Solo == {1}

Next ==
  \E p \in Solo :
    \/ Call(p)
    \/ Lookup(p)
    \/ Construct(p)
    \/ HasTable(p)
    \/ CreateTable(p)
    \/ DeleteRows(p)
    \/ ReadParse(p)
    \/ AddCommit(p)

Spec == Init /\ [][Next]_vars

(***************************************************************************)
(* SpecConc: two callers, each with its own session, their steps           *)
(* interleaved; three tenants, two kinds and a few inputs per kind         *)
(***************************************************************************)
ConcKinds == {"lice", "master_derived"}

ConcInputs(kind) ==
  IF kind = "lice"
    THEN {[wellformed |-> TRUE, items |-> its] :
            its \in SeqsUpTo({ItemOf(R1, O1, "", "1"), ItemOf(R1, Empty, "1", "1")},
                              MaxItems - 1)}
    ELSE SeqsUpTo({<<>>, WideLine(Required(kind))}, MaxLines - 1)

CallConc(p) == CallWith(p, ConcKinds, Tenants)

ReadParseConc(p) == ReadParseFrom(p, ConcInputs(loc[p].kind))

NextConc ==
  \E p \in Procs :
    \/ CallConc(p)
    \/ Lookup(p)
    \/ Construct(p)
    \/ HasTable(p)
    \/ CreateTable(p)
    \/ DeleteRows(p)
    \/ ReadParseConc(p)
    \/ AddCommit(p)

SpecConc == Init /\ [][NextConc]_vars

(***************************************************************************)
(* SpecSeq: one caller that calls the loaders one after the other with the *)
(* same session, as a request handler does with the session of get_db     *)
(***************************************************************************)
SeqKinds == {"lice", "user_role"}

CallSeq(p) == CallWith(p, SeqKinds, SoloTenants)

\* the call is over (it returned or raised) and the caller goes on
Return(p) ==
  /\ pc[p] = "done"
  /\ prev[p].calls < MaxCalls - 1
  /\ prev' = [prev EXCEPT ![p] = [calls |-> @.calls + 1, loc |-> loc[p],
                                  ret |-> ret[p], log |-> log[p],
                                  tables |-> tables]]
  /\ pc' = [pc EXCEPT ![p] = "idle"]
  /\ loc' = [loc EXCEPT ![p] = NoLocals]
  /\ ret' = [ret EXCEPT ![p] = NoResult]
  /\ log' = [log EXCEPT ![p] = <<>>]
  /\ UNCHANGED <<cache, tables, sess, pre>>

NextSeq ==
  \E p \in Solo :
    \/ CallSeq(p)
    \/ Lookup(p)
    \/ Construct(p)
    \/ HasTable(p)
    \/ CreateTable(p)
    \/ DeleteRows(p)
    \/ ReadParseConc(p)
    \/ AddCommit(p)
    \/ Return(p)

SpecSeq == Init /\ [][NextSeq]_vars

(***************************************************************************)
(* SpecNames: one create_<kind>_model call on names drawn from NameChars,  *)
(* in a process whose cache holds what an earlier create call left         *)
(***************************************************************************)
Names == SeqsUpTo(NameChars, MaxNameLen)

\* the beginnings of the suffixes that end before an underscore
SuffixHeads ==
  UNION {{SubSeq(Suffix(k), 1, j - 1) :
            j \in {i \in 1..Len(Suffix(k)) : Suffix(k)[i] = "_"}} : k \in Kinds}

\* system names that end in the beginning of a suffix
PriorTenants ==
  {<<<<"a">>, <<"a">>>>} \cup {<<<<"a">>, <<"a", "_">> \o h>> : h \in SuffixHeads}

NameTenants ==
  {t \in Names \X Names : t[1] = <<"a">> \/ t[2] = <<"a">>} \cup PriorTenants

\* the cache after one earlier create_<kind>_model call, or none
PriorCaches ==
  {<<>>} \cup
  {Store(<<>>, TableName(k, t[1], t[2]), NewModel(2, k, TableName(k, t[1], t[2]))) :
     k \in Kinds, t \in PriorTenants}

InitNames ==
  /\ cache \in PriorCaches
  /\ tables = EmptyDB
  /\ sess = [p \in Procs |-> CleanSession]
  /\ pc = [p \in Procs |-> "idle"]
  /\ loc = [p \in Procs |-> NoLocals]
  /\ ret = [p \in Procs |-> NoResult]
  /\ pre = [p \in Procs |-> [cache |-> cache, tables |-> tables, sess |-> sess[p]]]
  /\ log = [p \in Procs |-> <<>>]
  /\ prev = [p \in Procs |-> NoPrev]

CallNames(p) == CallWith(p, Kinds, NameTenants)

NextNames ==
  \E p \in Solo :
    \/ CallNames(p)
    \/ Lookup(p)
    \/ Construct(p)

SpecNames == InitNames /\ [][NextNames]_vars


(***************************************************************************)
(* Properties                                                              *)
(***************************************************************************)
Range(s) == {s[i] : i \in 1..Len(s)}

\* the call of p has issued operation op
Issued(p, op) == op \in Range(log[p])

\* the committed rows of a table, none if the table does not exist
RowsOf(db, t) == IF t \in DOMAIN db THEN db[t].rows ELSE {}

Succeeded(p) == pc[p] = "done" /\ ret[p].status = "returned"

\* C1: once a load has issued its delete, the committed rows of its table
\* are the rows from before the call for as long as the call runs and after
\* it has failed, every failure (which the call answers with a rollback) makes
\* the call raise, and only a call that returns leaves other rows: exactly
\* the parsed records.  The table never holds a mix and is never left empty
\* by a failed load.
C1_FailedLoadKeepsTable ==
  \A p \in Solo :
    Issued(p, "delete") =>
      LET t == loc[p].table_name IN
        /\ Issued(p, "rollback") => pc[p] = "done" /\ ret[p].status = "raised"
        /\ ~Succeeded(p) => RowsOf(tables, t) = RowsOf(pre[p].tables, t)
        /\ Succeeded(p) => Records(tables, t) = loc[p].objects

\* a commit that fails after the delete and the inserts, on a table with rows
C1_Witness ==
  \E p \in Solo :
    /\ pc[p] = "done" /\ ret[p].err = "Commit"
    /\ loc[p].objects # <<>>
    /\ RowsOf(pre[p].tables, loc[p].table_name) # {}

\* C3: a call without a file returns records_loaded = 0 and table_name = None
\* and leaves the cache, the tables and the session as they were; it issues
\* no registry and no session operation.
C3_AbsentFileIsSkipped ==
  \A p \in Solo :
    (pc[p] = "done" /\ ~loc[p].file) =>
      /\ ret[p] = Returned(None, 0)
      /\ log[p] = <<>>
      /\ sess[p] = pre[p].sess
      /\ cache = pre[p].cache
      /\ tables = pre[p].tables

\* a skipped call on a database that holds tables
C3_Witness ==
  \E p \in Solo :
    pc[p] = "done" /\ ~loc[p].file /\ loc[p].kind = "lice" /\ DOMAIN tables # {}


\* the call of p has read its input: loc[p].content is what it read
ReadDone(p) == Issued(p, "read") /\ ret[p].err # "Read"

\* the call of p holds its parsed objects
Parsed(p) == pc[p] = "insert" \/ (pc[p] = "done" /\ Issued(p, "add_all"))

IsCsv(p) == loc[p].kind \in CsvKinds

\* the columns of a line read as a CSV record of its own
LineRow(line) == csv_reader(<<line>>)[1]

\* the line ends outside a quoted field: it is a complete CSV record
ClosedLine(line) == ProcessChars(parse_reset, line).state = "START_RECORD"

\* a header line and data lines that all have the columns the kind requires
WellFormedLines(kind, lines) ==
  /\ Len(lines) >= 1
  /\ \A i \in 2..Len(lines) : Len(LineRow(lines[i])) >= Required(kind)

\* the call returned the count of the data lines and its table's name, and
\* the table holds one row per data line, field by field, and no older row
LoadedDataLines(p) ==
  LET kind == loc[p].kind
      lines == loc[p].content
      n == Len(lines) - 1
      t == TableName(kind, loc[p].client, loc[p].system)
  IN  /\ ret[p].records_loaded = n
      /\ ret[p].table_name = t
      /\ Len(Records(tables, t)) = n
      /\ \A i \in 1..n :
           /\ \A f \in DOMAIN FieldMap(kind) :
                Records(tables, t)[i][f] = LineRow(lines[i + 1])[FieldMap(kind)[f] + 1]
           /\ kind = "master_derived" =>
                /\ Records(tables, t)[i]["DERIVED_ROLE"] = LineRow(lines[i + 1])[1]
                /\ Records(tables, t)[i]["MASTER_ROLE"] = LineRow(lines[i + 1])[2]
      /\ RowsOf(tables, t) \cap RowsOf(pre[p].tables, t) = {}

\* C2 as stated: a successful CSV load of a header line and n data lines
\* with enough columns loads exactly the n data lines, whatever the header.
C2_AsStated ==
  \A p \in Solo :
    (Succeeded(p) /\ loc[p].file /\ IsCsv(p)
       /\ WellFormedLines(loc[p].kind, loc[p].content))
      => LoadedDataLines(p)

\* C2: a successful CSV load of a header line and n data lines with enough
\* columns, none of which leaves a quoted field open at its end, returns
\* records_loaded = n and the table name and leaves exactly the n data
\* lines in the table, each field the column at its index of the field_map;
\* no earlier row remains and the header line yields no row.
C2_LoadsDataLines ==
  \A p \in Solo :
    (Succeeded(p) /\ loc[p].file /\ IsCsv(p)
       /\ WellFormedLines(loc[p].kind, loc[p].content)
       /\ \A i \in 1..Len(loc[p].content) : ClosedLine(loc[p].content[i]))
      => LoadedDataLines(p)

\* a master/derived load of a header and two data lines over an older row
C2_Witness ==
  \E p \in Solo :
    /\ Succeeded(p) /\ loc[p].file /\ loc[p].kind = "master_derived"
    /\ Len(loc[p].content) = 3
    /\ WellFormedLines(loc[p].kind, loc[p].content)
    /\ \A i \in 1..3 : ClosedLine(loc[p].content[i])
    /\ LineRow(loc[p].content[2]) # LineRow(loc[p].content[3])
    /\ RowsOf(pre[p].tables, loc[p].table_name) # {}

\* the line on which each record of the reader starts, counted from 1
RECURSIVE RecordStarts(_, _, _, _)
RecordStarts(lines, ps, n, start) ==
  IF lines = <<>>
    THEN IF Len(ps.field) # 0 \/ ps.state = "IN_QUOTED_FIELD" THEN <<start>> ELSE <<>>
    ELSE LET ps2 == ProcessChars(ps, Head(lines))
         IN  IF ps2.state = "START_RECORD"
               THEN <<start>> \o RecordStarts(Tail(lines), parse_reset, n + 1, n + 1)
               ELSE RecordStarts(Tail(lines), ps2, n + 1, start)

\* the records after the first that have too few columns, by position
\* among all records (the header record is 1)
ShortRecords(kind, lines) ==
  {i \in 2..Len(csv_reader(lines)) : Len(csv_reader(lines)[i]) < Required(kind)}

FirstShort(kind, lines) ==
  CHOOSE i \in ShortRecords(kind, lines) : \A j \in ShortRecords(kind, lines) : i <= j

\* the load of p parsed a CSV input with a short data row and is over
MetShortRow(p) ==
  /\ pc[p] = "done" /\ IsCsv(p) /\ ReadDone(p)
  /\ ShortRecords(loc[p].kind, loc[p].content) # {}

\* C4 as stated: the error of a load that meets a short data row carries
\* the source line number of the first short row, the header being line 1.
C4_AsStated ==
  \A p \in Solo :
    MetShortRow(p) =>
      /\ ret[p].status = "raised" /\ ret[p].err = "NotEnoughColumns"
      /\ ret[p].row = RecordStarts(loc[p].content, parse_reset, 1, 1)
                        [FirstShort(loc[p].kind, loc[p].content)]
      /\ RowsOf(tables, loc[p].table_name) = RowsOf(pre[p].tables, loc[p].table_name)

\* C4: a CSV load that parses an input with a short data row fails, and its
\* error carries i + 2 for the first short row, i its zero-based index among
\* the records after the header record (its source line number when every
\* record before it is one line); the table keeps the rows it had, none of
\* the input's rows is committed.
C4_ShortRowAborts ==
  \A p \in Solo :
    MetShortRow(p) =>
      LET first == FirstShort(loc[p].kind, loc[p].content)
          starts == RecordStarts(loc[p].content, parse_reset, 1, 1)
      IN  /\ ret[p].status = "raised" /\ ret[p].err = "NotEnoughColumns"
          /\ ret[p].row = (first - 2) + 2
          /\ (\A j \in 1..first : starts[j] = j) => ret[p].row = starts[first]
          /\ RowsOf(tables, loc[p].table_name) = RowsOf(pre[p].tables, loc[p].table_name)

\* a short third line after a well-formed second line, on a table with rows
C4_Witness ==
  \E p \in Solo :
    /\ MetShortRow(p) /\ ret[p].row = 3
    /\ Len(loc[p].content) = 3
    /\ RowsOf(pre[p].tables, loc[p].table_name) # {}

\* C5: a CSV load whose input has no data row (a header line only, or no
\* line at all) does not raise: it returns records_loaded = 0 and the table
\* name, and its delete is committed, so the table is empty.
C5_NoDataRowsEmptiesTable ==
  \A p \in Solo :
    (pc[p] = "done" /\ IsCsv(p) /\ ReadDone(p) /\ Len(loc[p].content) <= 1
       /\ ret[p].err \notin {"Insert", "Commit"})
      => /\ ret[p] = Returned(loc[p].table_name, 0)
         /\ RowsOf(tables, loc[p].table_name) = {}


\* the positions of the detail items: the items with a non-empty OBJECT
Details(items) ==
  {i \in 1..Len(items) : "OBJECT" \in DOMAIN items[i] /\ items[i]["OBJECT"] # <<>>}

\* the position of the k-th detail item
DetailAt(items, k) ==
  CHOOSE i \in Details(items) : Cardinality({j \in Details(items) : j <= i}) = k

\* the headers of the role of item i seen before it: items with no OBJECT
\* value, an AGR_CLASSIF element and the same, non-empty, AGR_NAME
HeadersSeen(items, i) ==
  {j \in 1..(i - 1) :
     /\ j \notin Details(items)
     /\ "AGR_CLASSIF" \in DOMAIN items[j]
     /\ "AGR_NAME" \in DOMAIN items[j] /\ "AGR_NAME" \in DOMAIN items[i]
     /\ items[j]["AGR_NAME"] = items[i]["AGR_NAME"]
     /\ items[j]["AGR_NAME"] # <<>>}

Latest(S) == CHOOSE j \in S : \A k \in S : k <= j

\* "0" for the two counts, the empty string for the three texts
DefaultOf(f) == IF f \in {"AGR_OBJECTS", "AGR_USERS"} THEN <<"0">> ELSE <<>>

FieldOr(item, f, default) == IF f \in DOMAIN item THEN item[f] ELSE default

\* the header's field or its default once the header was seen, else the
\* detail item's own field or its default
FromHeaderOrOwn(items, i, f) ==
  IF HeadersSeen(items, i) # {}
    THEN FieldOr(items[Latest(HeadersSeen(items, i))], f, DefaultOf(f))
    ELSE FieldOr(items[i], f, DefaultOf(f))

\* the header's field, else the detail item's own, else the default
FirstPresent(items, i, f) ==
  IF HeadersSeen(items, i) # {} /\ f \in DOMAIN items[Latest(HeadersSeen(items, i))]
    THEN items[Latest(HeadersSeen(items, i))][f]
    ELSE FieldOr(items[i], f, DefaultOf(f))

FiveAggregates == {"AGR_TEXT", "AGR_CLASSIF", "AGR_RATIO", "AGR_OBJECTS", "AGR_USERS"}

IsXml(p) == loc[p].kind = "lice"

\* C6 as stated: one record per detail item, each aggregate field the
\* header's when the role's header was seen, else the detail item's own,
\* and its default only when it is absent from both.
C6_AsStated ==
  \A p \in Solo :
    (IsXml(p) /\ Parsed(p)) =>
      LET items == loc[p].content.items IN
        /\ Len(loc[p].objects) = Cardinality(Details(items))
        /\ \A k \in 1..Len(loc[p].objects) : \A f \in FiveAggregates :
             loc[p].objects[k][f] = FirstPresent(items, DetailAt(items, k), f)

\* C6: every detail item of an XML load produces exactly one record; when a
\* header of its role was seen before it, all five aggregate fields of the
\* record are those of the latest such header, a field that header lacks
\* taking its default ("0" for AGR_OBJECTS and AGR_USERS, else empty) even
\* if the detail item carries it; otherwise they are the detail item's own
\* fields, with the same defaults.
C6_AggregatesFromHeader ==
  \A p \in Solo :
    (IsXml(p) /\ Parsed(p)) =>
      LET items == loc[p].content.items IN
        /\ Len(loc[p].objects) = Cardinality(Details(items))
        /\ \A k \in 1..Len(loc[p].objects) : \A f \in FiveAggregates :
             loc[p].objects[k][f] = FromHeaderOrOwn(items, DetailAt(items, k), f)

\* a header for R1 with a classification, then a detail item for R1 with
\* none of its own: the record carries the header's classification
C6_Witness ==
  \E p \in Solo :
    /\ IsXml(p) /\ Parsed(p)
    /\ loc[p].content.items = <<ItemOf(R1, Empty, "1", ""), ItemOf(R1, O1, "", "")>>
    /\ Len(loc[p].objects) = 1
    /\ loc[p].objects[1]["AGR_CLASSIF"] = <<"C", "1">>

ParseErrors == {"ParseError", "NoItems", "NoObjects"}

HoldsModel(p) == Issued(p, "create_model") /\ pc[p] # "construct"

\* C8: under any interleaving of create_*_model calls a cache entry is never
\* replaced by a different model and every call for a table name returns
\* that one model: the model a caller holds is the cache's entry for its
\* table name, at every moment.
C8_OneModelPerTableName ==
  \A p \in Procs :
    HoldsModel(p) =>
      /\ loc[p].table_name \in DOMAIN cache
      /\ cache[loc[p].table_name] = loc[p].model

\* ensure_table_exists of p created its table
Created(p) ==
  /\ Issued(p, "create_table")
  /\ ret[p].err \notin {"TableExists", "CreateTable"}

\* C9: under any interleaving of ensure_table_exists calls for one table
\* name the table is created at most once, and no call fails because the
\* table was created between its has_table check and its create.
C9_AlreadyExistsIsSuccess ==
  /\ \A p, q \in Procs :
       (p # q /\ Created(p) /\ Created(q)) => loc[p].table_name # loc[q].table_name
  /\ \A p \in Procs : ret[p].err # "TableExists"

\* the kind and the normalised (client, system) pair of the call of p
Target(p) ==
  <<loc[p].kind, clean_client_name(loc[p].client), clean_system_name(loc[p].system)>>

\* C10: two load calls whose kind or normalised (client, system) pair differ
\* resolve to different tables, and after both are over the table of a
\* successful one holds what that load produces alone: its own records.
C10_DistinctTargetsAreIsolated ==
  \A p, q \in Procs :
    (p # q /\ Issued(p, "create_model") /\ Issued(q, "create_model")
       /\ Target(p) # Target(q))
      => /\ loc[p].table_name # loc[q].table_name
         /\ (pc[p] = "done" /\ pc[q] = "done" /\ Succeeded(p))
              => Records(tables, loc[p].table_name) = loc[p].objects


ProvisioningErrors == {"HasTable", "CreateTable", "TableExists"}

SessionOps == {"delete", "add_all", "commit", "rollback"}

\* C11: when ensure_table_exists fails inside a load, the load raises to its
\* caller, and nothing has been mutated: no delete, insert, commit or
\* rollback was issued on the session, the session is as it was, and every
\* table holds what it held when the call began.
C11_ProvisioningFailureMutatesNothing ==
  \A p \in Solo :
    (pc[p] = "done" /\ ret[p].err \in ProvisioningErrors) =>
      /\ ret[p].status = "raised"
      /\ Range(log[p]) \cap SessionOps = {}
      /\ sess[p] = pre[p].sess
      /\ tables = pre[p].tables

\* the create of a missing table failed
C11_Witness ==
  \E p \in Solo :
    /\ pc[p] = "done" /\ ret[p].err = "CreateTable"
    /\ log[p] = <<"create_model", "has_table", "create_table">>
    /\ loc[p].kind = "auth"


\* the call of p repeats the call before it: same loader, same arguments
\* and same input, a file that is present
RepeatsCall(p) ==
  /\ prev[p].calls >= 1
  /\ loc[p].file /\ prev[p].loc.file
  /\ loc[p].kind = prev[p].loc.kind
  /\ loc[p].client = prev[p].loc.client /\ loc[p].system = prev[p].loc.system
  /\ ReadDone(p) /\ loc[p].content = prev[p].loc.content

\* C12: when a load succeeds and the same call (same kind, client, system
\* and input) is run again and succeeds, the table holds after the second
\* call the records it held after the first.
C12_SecondLoadLeavesSameRecords ==
  \A p \in Solo :
    (RepeatsCall(p) /\ Succeeded(p) /\ prev[p].ret.status = "returned") =>
      /\ Records(tables, loc[p].table_name)
           = Records(prev[p].tables, loc[p].table_name)
      /\ ret[p] = prev[p].ret

\* a user/role load of one data line, run twice
C12_Witness ==
  \E p \in Solo :
    /\ RepeatsCall(p) /\ Succeeded(p) /\ prev[p].ret.status = "returned"
    /\ loc[p].kind = "user_role"
    /\ Len(loc[p].objects) >= 1
    /\ Records(tables, loc[p].table_name) = loc[p].objects


Last(s) == s[Len(s)]

\* C18: a load call that issued its delete ends after a commit that
\* succeeded or after a rollback, with nothing pending in its session; so
\* each later call on the session begins with a clean session, and a later
\* call that fails leaves in every table the rows the earlier call left.
C18_NothingLeftPending ==
  \A p \in Solo :
    /\ (pc[p] = "done" /\ Issued(p, "delete")) =>
         /\ sess[p] = CleanSession
         /\ Last(log[p]) \in {"commit", "rollback"}
         /\ Last(log[p]) = "commit" <=> ret[p].status = "returned"
    /\ (prev[p].calls >= 1 /\ pc[p] # "idle") => pre[p].sess = CleanSession
    /\ (prev[p].calls >= 1 /\ pc[p] = "done" /\ ret[p].status = "raised") =>
         \A t \in DOMAIN prev[p].tables :
           RowsOf(tables, t) = RowsOf(prev[p].tables, t)

\* a load that failed in its parse after its delete, then a second load on
\* the same session that failed at its commit, the table still holding the
\* rows it held before both
C18_Witness ==
  \E p \in Solo :
    /\ prev[p].calls >= 1
    /\ "delete" \in Range(prev[p].log) /\ prev[p].ret.err = "NotEnoughColumns"
    /\ pc[p] = "done" /\ ret[p].err = "Commit"
    /\ loc[p].kind = prev[p].loc.kind
    /\ loc[p].objects # <<>>
    /\ RowsOf(tables, loc[p].table_name) # {}


Whitespace == {" ", "\t"}

\* upper case, then every whitespace character to "_", then every character
\* that is not a letter, a digit or "_" removed
NormalizeAsStated(x) ==
  LET u == Concat([i \in 1..Len(x) |-> Upper(x[i])])
      w == [i \in 1..Len(u) |-> IF u[i] \in Whitespace THEN "_" ELSE u[i]]
  IN  SelectSeq(w, LAMBDA c : c \in WordChars)

\* character by character: a space gives "_", a letter, digit or "_" gives
\* its upper case, any other character gives nothing
NormalizeByChar(x) ==
  Concat([i \in 1..Len(x) |->
            IF x[i] = " " THEN <<"_">>
            ELSE IF x[i] \in WordChars THEN Upper(x[i])
            ELSE <<>>])

\* C13 as stated: the table name is 'Z_FUE_' + N(client) + '_' + N(system)
\* + '_' + suffix, N replacing every whitespace character by "_".
C13_AsStated ==
  \A p \in Solo :
    Issued(p, "create_model") =>
      loc[p].table_name =
        <<"Z", "_", "F", "U", "E", "_">> \o NormalizeAsStated(loc[p].client) \o <<"_">>
          \o NormalizeAsStated(loc[p].system) \o <<"_">> \o Suffix(loc[p].kind)

\* C13: the table name is 'Z_FUE_' + N(client) + '_' + N(system) + '_' +
\* the kind's suffix, whatever the cache holds, where N replaces every
\* space by "_", removes every other character that is not a letter, a
\* digit or "_" (tabs and other whitespace included) and puts what is left
\* in upper case; the same N serves client and system in all six kinds.
C13_TableNameFormat ==
  \A p \in Solo :
    Issued(p, "create_model") =>
      loc[p].table_name =
        <<"Z", "_", "F", "U", "E", "_">> \o NormalizeByChar(loc[p].client) \o <<"_">>
          \o NormalizeByChar(loc[p].system) \o <<"_">> \o Suffix(loc[p].kind)

\* client "a", system tab-space: the tab is removed, the space becomes "_"
C13_Witness ==
  \E p \in Solo :
    /\ Issued(p, "create_model")
    /\ loc[p].kind = "fiori"
    /\ loc[p].client = <<"a">> /\ loc[p].system = <<"\t", " ">>
    /\ loc[p].table_name =
         <<"Z", "_", "F", "U", "E", "_", "A", "_", "_", "_">> \o Suffix("fiori")

\* C14: clean_client_name and clean_system_name are idempotent on the
\* client and system names of every call.
C14_NormalizeIsIdempotent ==
  \A p \in Solo :
    Issued(p, "create_model") =>
      /\ clean_client_name(clean_client_name(loc[p].client))
           = clean_client_name(loc[p].client)
      /\ clean_system_name(clean_system_name(loc[p].system))
           = clean_system_name(loc[p].system)

\* per kind, the table names of the tenants whose system name ends in the
\* beginning of a suffix
PriorNames == [k \in Kinds |-> {TableName(k, t[1], t[2]) : t \in PriorTenants}]

\* C17: the table name of a call is the table name of no other kind, for any
\* (client, system), those ending in the beginning of a suffix included; so
\* the model a create call returns was built for its kind and its table.
C17_KindsNeverShareTableName ==
  \A p \in Solo :
    Issued(p, "create_model") =>
      /\ \A k \in Kinds \ {loc[p].kind} : loc[p].table_name \notin PriorNames[k]
      /\ \A n \in DOMAIN cache :
           \A k \in Kinds \ {cache[n].base} : n \notin PriorNames[k]
      /\ HoldsModel(p) =>
           /\ loc[p].model.base = loc[p].kind
           /\ loc[p].model.tablename = loc[p].table_name

\* the cache holds the user table of system "a_USER_ROLE" and the call is for
\* the user/role table of system "a": the names differ by one character
C17_Witness ==
  \E p \in Solo :
    /\ HoldsModel(p)
    /\ loc[p].kind = "user_role"
    /\ loc[p].client = <<"a">> /\ loc[p].system = <<"a">>
    /\ \E n \in DOMAIN cache :
         /\ cache[n].base = "user"
         /\ n = TableName("user", <<"a">>, <<"a", "_", "U", "S", "E", "R", "_", "R", "O", "L", "E">>)
    /\ loc[p].model.cls = p


StepOrder ==
  <<"create_model", "has_table", "create_table", "delete", "read", "add_all",
    "commit", "rollback">>

StepAt(op) == CHOOSE i \in 1..Len(StepOrder) : StepOrder[i] = op

ParseFailures == ParseErrors \cup {"StopIteration", "NotEnoughColumns"}

\* C15: the operations of a load are issued in the order model and table,
\* delete, read and parse, add_all, commit: the input is read only after
\* the delete was issued, nothing is added to the session before the whole
\* input is parsed, and a parse failure rolls the delete back.
C15_StepsInOrder ==
  \A p \in Solo :
    LET l == log[p] IN
      /\ \A i, j \in 1..Len(l) : i < j => StepAt(l[i]) < StepAt(l[j])
      /\ "has_table" \in Range(l) => "create_model" \in Range(l)
      /\ "delete" \in Range(l) => "has_table" \in Range(l)
      /\ "read" \in Range(l) => "delete" \in Range(l)
      /\ "add_all" \in Range(l) =>
           /\ "read" \in Range(l)
           /\ Parse(loc[p].kind, loc[p].content).ok
           /\ loc[p].objects = Parse(loc[p].kind, loc[p].content).objects
      /\ "commit" \in Range(l) => "add_all" \in Range(l)
      /\ "add_all" \notin Range(l) => sess[p].added = <<>>
      /\ (pc[p] = "done" /\ ret[p].err \in ParseFailures) =>
           /\ "delete" \in Range(l) /\ Last(l) = "rollback"
           /\ sess[p] = CleanSession
           /\ RowsOf(tables, loc[p].table_name) = RowsOf(pre[p].tables, loc[p].table_name)
      /\ (Succeeded(p) /\ loc[p].file) =>
           SelectSeq(l, LAMBDA op : op # "create_table")
             = <<"create_model", "has_table", "delete", "read", "add_all", "commit">>

\* a user load whose parse failed after the delete of a table with rows
C15_Witness ==
  \E p \in Solo :
    /\ pc[p] = "done" /\ loc[p].kind = "user"
    /\ ret[p].err = "NotEnoughColumns"
    /\ log[p] = <<"create_model", "has_table", "delete", "read", "rollback">>
    /\ RowsOf(tables, loc[p].table_name) # {}


\* the parse of the input of p yields no record: a document with items but
\* no detail item, or a CSV input with its header record only
YieldsNoRecord(p) ==
  IF IsCsv(p)
    THEN Len(csv_reader(loc[p].content)) = 1
    ELSE /\ loc[p].content.wellformed
         /\ loc[p].content.items # <<>>
         /\ Details(loc[p].content.items) = {}

\* the k = 0 half of C16 alone
C16_ZeroRecordsAlike ==
  \A p \in Solo :
    (pc[p] = "done" /\ ReadDone(p) /\ YieldsNoRecord(p)
       /\ ret[p].err \notin {"Insert", "Commit"}) =>
      /\ ret[p] = Returned(loc[p].table_name, 0)
      /\ SelectSeq(log[p], LAMBDA op : op # "create_table")
           = <<"create_model", "has_table", "delete", "read", "add_all", "commit">>

\* C16: the six loaders are one pipeline: each checks and creates its table
\* through the handle its session uses, and for the same step outcomes each
\* issues the same operations and ends alike, a parse that yields no record
\* included (an empty add_all, a commit, records_loaded = 0).
C16_OnePipeline ==
  /\ \A p \in Solo : Issued(p, "has_table") => EngineOf(loc[p].kind) = "db.bind"
  /\ C16_ZeroRecordsAlike


====
